---- MODULE Spec2Model ----
(***************************************************************************)
(* AutoDeployX backend tracking service (autodeploy/backend/main.py).      *)
(* The module-level dictionaries of the service are the state; every       *)
(* request handler is an action.  Handlers run on one asyncio event loop,  *)
(* so the code between two awaits is one atomic step: only                 *)
(* trigger_pipeline mutates the state on both sides of an await and is     *)
(* therefore split in two steps.                                           *)
(***************************************************************************)
EXTENDS Integers, Sequences, FiniteSets, TLC

VARIABLES pipeline_status, deployment_logs, current_pipeline,
          kubernetes_state, inflight, clock, status_events, last

vars == <<pipeline_status, deployment_logs, current_pipeline,
          kubernetes_state, inflight, clock, status_events, last>>

(***************************************************************************)
(* Bounds of the model.                                                    *)
(***************************************************************************)
\* requests that append a log line, in the full specification
MaxLogs == 3
\* trigger requests suspended in their outbound call at the same time
MaxInflight == 2
\* status events of the long run that fills the build and log ledgers
MaxDeep == 102
\* lifecycle and rollback requests of the run that fills the rollout ledger
MaxRollouts == 12

(***************************************************************************)
(* Python values.                                                          *)
(***************************************************************************)
\* None of an Optional[str] field
None == "None"

\* `x or d` on an optional string: None and "" are falsy
OrElse(x, d) == IF x = None \/ x = "" THEN d ELSE x

\* `n or d` on an optional integer: None (modelled 0) and 0 are falsy
OrElseInt(n, d) == IF n = 0 THEN d ELSE n

\* list.insert(0, x)
Insert0(list, x) == <<x>> \o list

\* list[:n]: the first n elements, all of them when n exceeds the length;
\* a negative n counts from the end (all but the last -n elements)
Take(list, n) ==
    LET stop == IF n >= 0 THEN n ELSE Len(list) + n
    IN  SubSeq(list, 1, IF stop < Len(list) THEN stop ELSE Len(list))

\* the instants the wall clock passes through: a date, a time of day and
\* microseconds
Instants == << [date |-> "2026-01-01", hms |-> "10:00:00", micro |-> "000000"],
              [date |-> "2026-01-02", hms |-> "10:00:05", micro |-> "000250"] >>

\* datetime.now()
Now == Instants[clock]

\* datetime.strftime("%H:%M:%S")
StrfHMS(now) == now.hms

\* datetime.isoformat(): the microseconds are printed only when non-zero
IsoFormat(now) ==
    IF now.micro = "000000" THEN now.date \o "T" \o now.hms
    ELSE now.date \o "T" \o now.hms \o "." \o now.micro

(***************************************************************************)
(* The stage template of a fresh run.                                      *)
(***************************************************************************)
StageNames == <<"Checkout", "Test", "Build", "Push", "Deploy">>

\* the template entries carry no timestamp key
StageTemplate == [i \in 1..Len(StageNames) |->
                     [name |-> StageNames[i], status |-> "pending",
                      timestamp |-> None]]

(***************************************************************************)
(* Module state after import.                                              *)
(***************************************************************************)
Init ==
    /\ pipeline_status = [total |-> 0, active |-> 0, success |-> 0,
                          failed |-> 0, builds |-> <<>>]
    /\ deployment_logs = <<>>
    /\ current_pipeline = [pipelineName |-> None, buildNumber |-> 0,
                           status |-> "pending",
                           currentStage |-> "Waiting...",
                           branch |-> "main", startTime |-> None,
                           stages |-> <<>>]
    /\ kubernetes_state = [currentVersion |-> "latest", pods |-> <<>>,
                           rolloutHistory |-> <<>>]
    /\ inflight = <<>>
    /\ clock = 1
    /\ status_events = 0
    /\ last = [op |-> "init"]

(***************************************************************************)
(* POST /jenkins/status                                                    *)
(***************************************************************************)
\* variant: the decrements of active are not guarded by active > 0
ApplyStatusCounters_Unsaturated(ps, status) ==
    LET t == [ps EXCEPT !.total = @ + 1]
    IN  CASE status = "success" ->
               [t EXCEPT !.success = @ + 1, !.active = @ - 1]
          [] status = "failure" ->
               [t EXCEPT !.failed = @ + 1, !.active = @ - 1]
          [] status = "running" -> [t EXCEPT !.active = @ + 1]
          [] OTHER -> t

\* variant: the failure branch forgets the decrement of active
ApplyStatusCounters_FailureKeepsActive(ps, status) ==
    LET t == [ps EXCEPT !.total = @ + 1]
    IN  CASE status = "success" ->
               [t EXCEPT !.success = @ + 1,
                         !.active = IF @ > 0 THEN @ - 1 ELSE @]
          [] status = "failure" -> [t EXCEPT !.failed = @ + 1]
          [] status = "running" -> [t EXCEPT !.active = @ + 1]
          [] OTHER -> t

\* the counter part of update_jenkins_status
ApplyStatusCounters(ps, status) ==
    LET t == [ps EXCEPT !.total = @ + 1]
    IN  CASE status = "success" ->
               [t EXCEPT !.success = @ + 1,
                         !.active = IF @ > 0 THEN @ - 1 ELSE @]
          [] status = "failure" ->
               [t EXCEPT !.failed = @ + 1,
                         !.active = IF @ > 0 THEN @ - 1 ELSE @]
          [] status = "running" -> [t EXCEPT !.active = @ + 1]
          [] OTHER -> t

\* level of the log line of a status event and of a lifecycle event
StatusLevel(status) ==
    IF status = "success" THEN "success"
    ELSE IF status = "failure" THEN "error" ELSE "info"

BuildEntry(su, total, now, duration) ==
    [pipeline_name |-> su.pipeline_name,
     build_number |-> OrElseInt(su.build_number, total),
     status |-> su.status,
     stage |-> su.stage,
     branch |-> OrElse(su.branch, "main"),
     timestamp |-> IsoFormat(now),
     message |-> su.message,
     duration |-> duration]

StatusLogEntry(su, now) ==
    [timestamp |-> StrfHMS(now),
     level |-> StatusLevel(su.status),
     message |-> IF su.message # <<>> THEN su.message
                 ELSE <<"Pipeline ", su.pipeline_name, " - ", su.status>>]

\* deployment_logs.insert(0, log_entry); deployment_logs[:100] is an
\* expression statement whose value is dropped
AppendStatusLog(logs, entry) == Insert0(logs, entry)

\* variant: the slice is not assigned back, as for the log ledger
AppendBuild_SliceDropped(builds, entry) == Insert0(builds, entry)

\* builds.insert(0, build_entry); builds = builds[:100]
AppendBuild(builds, entry) == Take(Insert0(builds, entry), 100)

\* variant: every running event stamps the start time
NextStartTime_Restamps(startTime, status, now) ==
    IF status = "running" THEN StrfHMS(now) ELSE startTime

\* startTime after a status event: set when the status is running and no
\* start time is recorded yet
NextStartTime(startTime, status, now) ==
    IF status = "running" /\ (startTime = None \/ startTime = "")
    THEN StrfHMS(now) ELSE startTime

update_jenkins_status(su, now, duration) ==
    LET counted == ApplyStatusCounters(pipeline_status, su.status)
        entry == BuildEntry(su, counted.total, now, duration)
    IN  /\ pipeline_status' =
              [counted EXCEPT !.builds = AppendBuild(@, entry)]
        /\ current_pipeline' =
              [current_pipeline EXCEPT
                  !.pipelineName = su.pipeline_name,
                  !.buildNumber = OrElseInt(su.build_number, counted.total),
                  !.status = su.status,
                  !.currentStage = OrElse(su.stage, "Processing..."),
                  !.branch = OrElse(su.branch, "main"),
                  !.startTime = NextStartTime(@, su.status, now)]
        /\ deployment_logs' =
              AppendStatusLog(deployment_logs, StatusLogEntry(su, now))
        /\ status_events' = status_events + 1
        /\ last' = [op |-> "status", req |-> su, http |-> 200,
                    resp |-> [status |-> "received", build |-> entry]]
        /\ UNCHANGED <<kubernetes_state, inflight, clock>>

\* the status events the model sends
StatusInputs ==
    { [status |-> s, pipeline_name |-> "AutoDeployX", build_number |-> 0,
       stage |-> None, message |-> <<>>, branch |-> "main"] :
         s \in {"success", "failure", "running", "pending"} }
    \cup
    { [status |-> "success", pipeline_name |-> "api", build_number |-> 7,
       stage |-> "Deploy", message |-> <<"deployed">>, branch |-> None] }

\* random.randint(30, 300), the simulated duration of a build entry: the
\* value is stored and echoed, no handler reads it back
Durations == {30}

StatusEvent ==
    /\ Len(deployment_logs) + Len(inflight) < MaxLogs
    /\ \E su \in StatusInputs, d \in Durations :
          update_jenkins_status(su, Now, d)

(***************************************************************************)
(* POST /jenkins/stage                                                     *)
(***************************************************************************)
\* index of the first stage named name, 0 when there is none (the for loop
\* with its break)
RECURSIVE FindStage(_, _, _)
FindStage(stages, name, i) ==
    IF i > Len(stages) THEN 0
    ELSE IF stages[i].name = name THEN i
    ELSE FindStage(stages, name, i + 1)

\* variant: the stage level tests the spelling of the status events
StageLevel_StatusSpelling(status) ==
    IF status = "success" THEN "success"
    ELSE IF status = "failure" THEN "error" ELSE "info"

StageLevel(status) ==
    IF status = "success" THEN "success"
    ELSE IF status = "failed" THEN "error" ELSE "info"

\* variant: a new stage is put in front, as the ledgers do
UpdateStages_Prepend(stages, st, now) ==
    LET i == FindStage(stages, st.stage_name, 1)
        ts == OrElse(st.timestamp, StrfHMS(now))
    IN  IF i # 0
        THEN [stages EXCEPT ![i].status = st.status, ![i].timestamp = ts]
        ELSE Insert0(stages, [name |-> st.stage_name, status |-> st.status,
                              timestamp |-> ts])

\* variant: the lookup by name is skipped
UpdateStages_AlwaysAppend(stages, st, now) ==
    Append(stages, [name |-> st.stage_name, status |-> st.status,
                    timestamp |-> OrElse(st.timestamp, StrfHMS(now))])

\* the stage list after the update-or-append of update_stage
UpdateStages(stages, st, now) ==
    LET i == FindStage(stages, st.stage_name, 1)
        ts == OrElse(st.timestamp, StrfHMS(now))
    IN  IF i # 0
        THEN [stages EXCEPT ![i].status = st.status, ![i].timestamp = ts]
        ELSE Append(stages, [name |-> st.stage_name, status |-> st.status,
                             timestamp |-> ts])

StageLogEntry(st, now) ==
    [timestamp |-> StrfHMS(now),
     level |-> StageLevel(st.status),
     message |-> <<"Stage '", st.stage_name, "' - ", st.status>>]

\* variant: the line is put at the end of the ledger
AppendLog_AtEnd(logs, entry) == Append(logs, entry)

\* deployment_logs.insert(0, log_entry), no truncation
AppendLog(logs, entry) == Insert0(logs, entry)

update_stage(st, now) ==
    /\ current_pipeline' =
          [current_pipeline EXCEPT
              !.stages = UpdateStages(@, st, now),
              !.currentStage = st.stage_name]
    /\ deployment_logs' = AppendLog(deployment_logs, StageLogEntry(st, now))
    /\ last' = [op |-> "stage", req |-> st, http |-> 200,
                resp |-> [status |-> "updated", stage |-> st.stage_name]]
    /\ UNCHANGED <<pipeline_status, kubernetes_state, inflight,
                   clock, status_events>>

\* the stage events the model sends: a template name and a new name
StageInputs ==
    { [stage_name |-> "Build", status |-> "running", timestamp |-> None],
      [stage_name |-> "Build", status |-> "success",
       timestamp |-> "09:59:59"],
      [stage_name |-> "Lint", status |-> "failed", timestamp |-> None] }

StageEvent ==
    /\ Len(deployment_logs) + Len(inflight) < MaxLogs
    /\ \E st \in StageInputs : update_stage(st, Now)

(***************************************************************************)
(* POST /deployments/event                                                 *)
(***************************************************************************)
\* Optional[dict]: None, or the items of the dictionary in order
NoDetails == [isNone |-> TRUE, items |-> <<>>]
Dict(items) == [isNone |-> FALSE, items |-> items]

\* truthiness of the details: None and {} are falsy
DetailsTruthy(d) == ~d.isNone /\ d.items # <<>>

\* `key in details`
HasKey(d, key) == \E i \in 1..Len(d.items) : d.items[i][1] = key

\* details[key] for a key that is present
GetKey(d, key) ==
    d.items[CHOOSE i \in 1..Len(d.items) : d.items[i][1] = key][2]

\* json.dumps(details), as the pieces of the string
RECURSIVE JsonItems(_, _)
JsonItems(items, i) ==
    IF i > Len(items) THEN <<>>
    ELSE (IF i > 1 THEN <<", ">> ELSE <<>>)
         \o <<"\"", items[i][1], "\": \"", items[i][2], "\"">>
         \o JsonItems(items, i + 1)
JsonDumps(d) == <<"{">> \o JsonItems(d.items, 1) \o <<"}">>

EventLogEntry(ev, now) ==
    [timestamp |-> StrfHMS(now),
     level |-> StatusLevel(ev.status),
     message |-> <<ev.event_type, ": ", ev.status>>
                 \o (IF DetailsTruthy(ev.details)
                     THEN <<" - ">> \o JsonDumps(ev.details) ELSE <<>>)]

\* rolloutHistory.insert(0, record); rolloutHistory = rolloutHistory[:10]
AppendRollout(history, image, now) ==
    Take(Insert0(history, [revision |-> Len(history) + 1,
                           image |-> image,
                           timestamp |-> StrfHMS(now),
                           status |-> "success"]), 10)

\* variant: the status of the event is not looked at
record_deployment_event_AnyStatus(ev, now) ==
    LET entry == EventLogEntry(ev, now)
    IN  /\ deployment_logs' = AppendLog(deployment_logs, entry)
        /\ kubernetes_state' =
              IF /\ ev.event_type = "deploy"
                 /\ DetailsTruthy(ev.details)
                 /\ HasKey(ev.details, "version")
              THEN [kubernetes_state EXCEPT
                       !.currentVersion = GetKey(ev.details, "version"),
                       !.rolloutHistory =
                           AppendRollout(@, GetKey(ev.details, "version"),
                                         now)]
              ELSE kubernetes_state
        /\ last' = [op |-> "event", req |-> ev, http |-> 200,
                    resp |-> [status |-> "recorded", log |-> entry]]
        /\ UNCHANGED <<pipeline_status, current_pipeline, inflight,
                       clock, status_events>>

record_deployment_event(ev, now) ==
    LET entry == EventLogEntry(ev, now)
    IN  /\ deployment_logs' = AppendLog(deployment_logs, entry)
        /\ kubernetes_state' =
              IF /\ ev.event_type = "deploy"
                 /\ ev.status = "success"
                 /\ DetailsTruthy(ev.details)
                 /\ HasKey(ev.details, "version")
              THEN [kubernetes_state EXCEPT
                       !.currentVersion = GetKey(ev.details, "version"),
                       !.rolloutHistory =
                           AppendRollout(@, GetKey(ev.details, "version"),
                                         now)]
              ELSE kubernetes_state
        /\ last' = [op |-> "event", req |-> ev, http |-> 200,
                    resp |-> [status |-> "recorded", log |-> entry]]
        /\ UNCHANGED <<pipeline_status, current_pipeline, inflight,
                       clock, status_events>>

\* the lifecycle events the model sends
EventInputs ==
    { [event_type |-> "deploy", status |-> "success",
       details |-> Dict(<< <<"version", "v2">> >>)],
      [event_type |-> "deploy", status |-> "success", details |-> NoDetails],
      [event_type |-> "deploy", status |-> "failure",
       details |-> Dict(<< <<"version", "v3">> >>)],
      [event_type |-> "push", status |-> "success",
       details |-> Dict(<< <<"replicas", "3">> >>)] }

LifecycleEvent ==
    /\ Len(deployment_logs) + Len(inflight) < MaxLogs
    /\ \E ev \in EventInputs : record_deployment_event(ev, Now)

(***************************************************************************)
(* POST /deployments/{deployment_id}/rollback                              *)
(***************************************************************************)
RollbackLogEntry(deployment_id, now) ==
    [timestamp |-> StrfHMS(now),
     level |-> "warning",
     message |-> <<"Rollback initiated for deployment: ", deployment_id>>]

\* rolloutHistory.insert(0, record), no truncation
AppendRollback(history, deployment_id, now) ==
    Insert0(history, [revision |-> Len(history) + 1,
                      image |-> "rollback-" \o deployment_id,
                      timestamp |-> StrfHMS(now),
                      status |-> "rolling"])

rollback_deployment(deployment_id, now) ==
    /\ deployment_logs' =
          AppendLog(deployment_logs, RollbackLogEntry(deployment_id, now))
    /\ kubernetes_state' =
          [kubernetes_state EXCEPT
              !.rolloutHistory = AppendRollback(@, deployment_id, now)]
    /\ last' = [op |-> "rollback", req |-> deployment_id, http |-> 200,
                resp |-> [status |-> "rolling_back",
                          deployment_id |-> deployment_id,
                          message |-> "Rollback initiated"]]
    /\ UNCHANGED <<pipeline_status, current_pipeline, inflight,
                   clock, status_events>>

DeploymentIds == {"unknown"}

Rollback ==
    /\ Len(deployment_logs) + Len(inflight) < MaxLogs
    /\ \E id \in DeploymentIds : rollback_deployment(id, Now)

(***************************************************************************)
(* GET /pipelines/current                                                  *)
(***************************************************************************)
\* variant: the template is written on every read
get_current_pipeline_AlwaysSeeds ==
    LET seeded == [current_pipeline EXCEPT !.stages = StageTemplate]
    IN  /\ current_pipeline' = seeded
        /\ last' = [op |-> "current", http |-> 200,
                    resp |-> [pipeline |-> seeded]]
        /\ UNCHANGED <<pipeline_status, deployment_logs, kubernetes_state,
                       inflight, clock, status_events>>

get_current_pipeline ==
    LET seeded == IF current_pipeline.stages = <<>>
                  THEN [current_pipeline EXCEPT !.stages = StageTemplate]
                  ELSE current_pipeline
    IN  /\ current_pipeline' = seeded
        /\ last' = [op |-> "current", http |-> 200,
                    resp |-> [pipeline |-> seeded]]
        /\ UNCHANGED <<pipeline_status, deployment_logs, kubernetes_state,
                       inflight, clock, status_events>>

(***************************************************************************)
(* POST /pipelines/trigger                                                 *)
(***************************************************************************)
\* variant: the fresh run starts as pending, like the run at import
FreshRun_Pending(request, total, now) ==
    [pipelineName |-> request.pipeline_name,
     buildNumber |-> total + 1,
     status |-> "pending",
     currentStage |-> "Starting...",
     branch |-> request.branch,
     startTime |-> StrfHMS(now),
     stages |-> StageTemplate]

\* variant: the template is used only when there are no stages yet, like
\* the seeding of get_current_pipeline
FreshRun_KeepStages(request, total, now) ==
    [pipelineName |-> request.pipeline_name,
     buildNumber |-> total + 1,
     status |-> "running",
     currentStage |-> "Starting...",
     branch |-> request.branch,
     startTime |-> StrfHMS(now),
     stages |-> IF current_pipeline.stages = <<>> THEN StageTemplate
                ELSE current_pipeline.stages]

\* the record trigger_pipeline assigns to current_pipeline
FreshRun(request, total, now) ==
    [pipelineName |-> request.pipeline_name,
     buildNumber |-> total + 1,
     status |-> "running",
     currentStage |-> "Starting...",
     branch |-> request.branch,
     startTime |-> StrfHMS(now),
     stages |-> StageTemplate]

\* variant: the trigger counts itself as a build
TriggerBegin_CountsTotal(request, now) ==
    LET fresh == FreshRun(request, pipeline_status.total, now)
    IN  /\ current_pipeline' = fresh
        /\ pipeline_status' = [pipeline_status EXCEPT !.active = @ + 1,
                                                      !.total = @ + 1]
        /\ inflight' = Append(inflight, [request |-> request,
                                         assigned |-> fresh.buildNumber])
        /\ last' = [op |-> "trigger_begin", req |-> request]
        /\ UNCHANGED <<deployment_logs, kubernetes_state, clock, status_events>>

\* trigger_pipeline up to its await of client.post: the reset and the
\* increment of active; the request waits in inflight with the build number
\* its reset assigned
TriggerBegin(request, now) ==
    LET fresh == FreshRun(request, pipeline_status.total, now)
    IN  /\ current_pipeline' = fresh
        /\ pipeline_status' = [pipeline_status EXCEPT !.active = @ + 1]
        /\ inflight' = Append(inflight, [request |-> request,
                                         assigned |-> fresh.buildNumber])
        /\ last' = [op |-> "trigger_begin", req |-> request]
        /\ UNCHANGED <<deployment_logs, kubernetes_state, clock, status_events>>

\* outcomes of the build-server call: a 2xx of the accepted list, any other
\* response, an exception (timeout, connection error)
Outcomes == {"accepted", "rejected", "raised"}

TriggerLogEntry(request, outcome, now) ==
    IF outcome = "accepted"
    THEN [timestamp |-> StrfHMS(now), level |-> "info",
          message |-> <<"Pipeline '", request.pipeline_name,
                        "' triggered successfully on branch '",
                        request.branch, "'">>]
    ELSE [timestamp |-> StrfHMS(now), level |-> "warning",
          message |-> <<"Pipeline trigger queued (Jenkins offline): ",
                        request.pipeline_name>>]

TriggerResponse(request, outcome, build_number) ==
    IF outcome = "accepted"
    THEN [status |-> "triggered", pipeline_name |-> request.pipeline_name,
          branch |-> request.branch, build_number |-> build_number]
    ELSE [status |-> "queued",
          message |-> "Jenkins may be offline, pipeline queued",
          pipeline_name |-> request.pipeline_name,
          build_number |-> build_number]

\* the sequence s without its i-th element
RemoveAt(s, i) == SubSeq(s, 1, i - 1) \o SubSeq(s, i + 1, Len(s))

\* variant: the fallback path takes back the increment of active
TriggerFinish_FallbackUndoes(i, outcome, now) ==
    LET t == inflight[i]
    IN  /\ deployment_logs' =
              AppendLog(deployment_logs,
                        TriggerLogEntry(t.request, outcome, now))
        /\ inflight' = RemoveAt(inflight, i)
        /\ pipeline_status' =
              IF outcome = "accepted" THEN pipeline_status
              ELSE [pipeline_status EXCEPT !.active = @ - 1]
        /\ last' = [op |-> "trigger", req |-> t.request, http |-> 200,
                    outcome |-> outcome, assigned |-> t.assigned,
                    resp |-> TriggerResponse(t.request, outcome,
                                             current_pipeline.buildNumber)]
        /\ UNCHANGED <<current_pipeline, kubernetes_state,
                       clock, status_events>>

\* trigger_pipeline after its await: the log line and the response, which
\* reads current_pipeline["buildNumber"] at that moment
TriggerFinish(i, outcome, now) ==
    LET t == inflight[i]
    IN  /\ deployment_logs' =
              AppendLog(deployment_logs,
                        TriggerLogEntry(t.request, outcome, now))
        /\ inflight' = RemoveAt(inflight, i)
        /\ last' = [op |-> "trigger", req |-> t.request, http |-> 200,
                    outcome |-> outcome, assigned |-> t.assigned,
                    resp |-> TriggerResponse(t.request, outcome,
                                             current_pipeline.buildNumber)]
        /\ UNCHANGED <<pipeline_status, current_pipeline, kubernetes_state,
                       clock, status_events>>

TriggerInputs == { [pipeline_name |-> "api", branch |-> "dev"] }

TriggerStart ==
    /\ Len(deployment_logs) + Len(inflight) < MaxLogs
    /\ Len(inflight) < MaxInflight
    /\ \E request \in TriggerInputs : TriggerBegin(request, Now)

TriggerEnd ==
    \E i \in 1..Len(inflight), outcome \in Outcomes :
       TriggerFinish(i, outcome, Now)

CurrentRead == get_current_pipeline

\* the wall clock advances between two requests
Tick ==
    /\ clock < Len(Instants)
    /\ clock' = clock + 1
    /\ last' = [op |-> "tick"]
    /\ UNCHANGED <<pipeline_status, deployment_logs, current_pipeline,
                   kubernetes_state, inflight, status_events>>

(***************************************************************************)
(* GET /metrics/success-rate and GET /stats/history                        *)
(***************************************************************************)
\* the shared state, which a read leaves as it is
state == <<pipeline_status, deployment_logs, current_pipeline,
           kubernetes_state, inflight, clock, status_events>>

\* variant: the quotient is cut after the first decimal instead of rounded
RoundTenths_Truncates(num, den) == (1000 * num) \div den

\* round((num / den) * 100, 1), in tenths of a percent (75.0 is 750): the
\* nearest tenth, the even one when the value is exactly half way
RoundTenths(num, den) ==
    LET q == (1000 * num) \div den
        r == (1000 * num) % den
    IN  IF 2 * r < den THEN q
        ELSE IF 2 * r > den THEN q + 1
        ELSE IF q % 2 = 0 THEN q ELSE q + 1

\* the rate of get_success_rate, in tenths of a percent
SuccessRate(ps) ==
    LET total == ps.success + ps.failed
    IN  IF total = 0 THEN 1000 ELSE RoundTenths(ps.success, total)

get_success_rate ==
    /\ last' = [op |-> "success_rate", http |-> 200,
                resp |-> [rate |-> SuccessRate(pipeline_status),
                          success |-> pipeline_status.success,
                          failed |-> pipeline_status.failed,
                          total |-> pipeline_status.success
                                       + pipeline_status.failed]]
    /\ UNCHANGED state

\* variant: only the newest build is looked at
FirstSuccess_FrontOnly(list, i) ==
    IF i > Len(list) THEN 0
    ELSE IF list[i].status = "success" THEN i
    ELSE 0

\* index of the first build with status success, 0 when there is none (the
\* for loop with its break)
RECURSIVE FirstSuccess(_, _)
FirstSuccess(list, i) ==
    IF i > Len(list) THEN 0
    ELSE IF list[i].status = "success" THEN i
    ELSE FirstSuccess(list, i + 1)

\* last_success_time[:19] if len(last_success_time) > 19
Truncate19(text) == IF Len(text) > 19 THEN Take(text, 19) ELSE text

\* the success rate of get_history_stats, in tenths of a percent
HistoryRate(ps) ==
    IF ps.total = 0 THEN 1000
    ELSE IF ps.success + ps.failed > 0
         THEN RoundTenths(ps.success, ps.success + ps.failed)
         ELSE 1000

get_history_stats ==
    LET k == FirstSuccess(pipeline_status.builds, 1)
        last_success_time ==
            IF k = 0 THEN "N/A" ELSE pipeline_status.builds[k].timestamp
        last_deployed_version ==
            IF k = 0 THEN "N/A"
            ELSE "v" \o ToString(pipeline_status.builds[k].build_number)
    IN  /\ last' = [op |-> "history_stats", http |-> 200,
                    resp |-> [totalPipelines |-> pipeline_status.total,
                              successCount |-> pipeline_status.success,
                              failureCount |-> pipeline_status.failed,
                              lastSuccessTime |->
                                  Truncate19(last_success_time),
                              lastDeployedVersion |-> last_deployed_version,
                              successRate |-> HistoryRate(pipeline_status)]]
        /\ UNCHANGED state

(***************************************************************************)
(* The other reads of the tracked state                                    *)
(***************************************************************************)
get_deployments ==
    /\ last' = [op |-> "deployments", http |-> 200,
                resp |-> [total |-> pipeline_status.total,
                          this_month |-> pipeline_status.total,
                          success |-> pipeline_status.success,
                          failed |-> pipeline_status.failed]]
    /\ UNCHANGED state

get_recent_logs(limit) ==
    /\ last' = [op |-> "recent_logs", req |-> limit, http |-> 200,
                resp |-> [logs |-> Take(deployment_logs, limit),
                          total |-> Len(deployment_logs)]]
    /\ UNCHANGED state

get_recent_pipelines(limit) ==
    /\ last' = [op |-> "recent_pipelines", req |-> limit, http |-> 200,
                resp |-> [builds |-> Take(pipeline_status.builds, limit),
                          total |-> Len(pipeline_status.builds)]]
    /\ UNCHANGED state

get_pipeline_history(limit) ==
    /\ last' = [op |-> "pipeline_history", req |-> limit, http |-> 200,
                resp |-> [builds |-> Take(pipeline_status.builds, limit),
                          total |-> Len(pipeline_status.builds),
                          stats |-> [total |-> pipeline_status.total,
                                     success |-> pipeline_status.success,
                                     failed |-> pipeline_status.failed,
                                     active |-> pipeline_status.active]]]
    /\ UNCHANGED state

(***************************************************************************)
(* GET /kubernetes/deployment and POST /kubernetes/pods                    *)
(***************************************************************************)
\* the pod the read makes up when there are no pods; number is
\* random.randint(1000, 9999)
SimulatedPod(number) ==
    [name |-> "autodeployx-app-" \o ToString(number),
     status |-> "running", restarts |-> 0]

get_kubernetes_deployment(number) ==
    LET pods == IF kubernetes_state.pods = <<>>
                THEN <<SimulatedPod(number)>> ELSE kubernetes_state.pods
    IN  /\ kubernetes_state' = [kubernetes_state EXCEPT !.pods = pods]
        /\ last' = [op |-> "kubernetes", http |-> 200,
                    resp |-> [cluster |-> "minikube",
                              namespace |-> "default",
                              deploymentName |-> "autodeployx-app",
                              currentVersion |->
                                  kubernetes_state.currentVersion,
                              pods |-> pods,
                              rolloutHistory |->
                                  Take(kubernetes_state.rolloutHistory, 5)]]
        /\ UNCHANGED <<pipeline_status, deployment_logs, current_pipeline,
                       inflight, clock, status_events>>

update_pods(pods) ==
    /\ kubernetes_state' = [kubernetes_state EXCEPT !.pods = pods]
    /\ last' = [op |-> "pods", req |-> pods, http |-> 200,
                resp |-> [status |-> "updated", pods |-> Len(pods)]]
    /\ UNCHANGED <<pipeline_status, deployment_logs, current_pipeline,
                   inflight, clock, status_events>>

(***************************************************************************)
(* Reads that query the build server or the registry.  The handler reads   *)
(* the tracked state only after its await, so each is one step taken when  *)
(* the outbound call ends.                                                 *)
(***************************************************************************)
\* outcomes of a GET: status 200 with a usable body, any other status, an
\* exception (timeout, connection error, unusable body)
GetOutcomes == {"ok", "not200", "raised"}

\* f"{DOCKERHUB_USER}/{DOCKERHUB_REPO}" with the default environment
Repository == "sarika1731" \o "/" \o "autodeployx"

\* [{"name": j.get("name"), "color": j.get("color")} for j in jobs]
JobColors(jobs) ==
    [i \in 1..Len(jobs) |-> [name |-> jobs[i].name, color |-> jobs[i].color]]

\* variant: the failure of the build server is passed on to the caller
get_pipelines_Propagates(outcome, jobs) ==
    /\ last' = IF outcome = "ok"
               THEN [op |-> "pipelines", outcome |-> outcome, http |-> 200,
                     resp |-> [total |-> Len(jobs),
                               active |-> pipeline_status.active,
                               jobs |-> JobColors(jobs)]]
               ELSE [op |-> "pipelines", outcome |-> outcome, http |-> 502,
                     resp |-> [detail |-> "Jenkins unavailable"]]
    /\ UNCHANGED state

get_pipelines(outcome, jobs) ==
    /\ last' = [op |-> "pipelines", outcome |-> outcome, http |-> 200,
                resp |-> IF outcome = "ok"
                         THEN [total |-> Len(jobs),
                               active |-> pipeline_status.active,
                               jobs |-> JobColors(jobs)]
                         ELSE [total |-> pipeline_status.total,
                               active |-> pipeline_status.active,
                               jobs |-> <<>>]]
    /\ UNCHANGED state

get_docker_images(outcome, data) ==
    /\ last' = [op |-> "docker_images", outcome |-> outcome, http |-> 200,
                resp |-> IF outcome = "ok"
                         THEN [count |-> data.count,
                               source |-> "DockerHub",
                               repository |-> Repository,
                               tags |-> [i \in 1..Len(Take(data.results, 10))
                                            |-> data.results[i].name]]
                         ELSE [count |-> 0,
                               source |-> "DockerHub",
                               repository |-> Repository,
                               tags |-> <<>>]]
    /\ UNCHANGED state

\* round(full_size / 1024 / 1024, 1) printed with " MB"
SizeMB(full_size) ==
    LET q == (10 * full_size) \div 1048576
        r == (10 * full_size) % 1048576
        tenths == IF 2 * r < 1048576 THEN q
                  ELSE IF 2 * r > 1048576 THEN q + 1
                  ELSE IF q % 2 = 0 THEN q ELSE q + 1
    IN  ToString(tenths \div 10) \o "." \o ToString(tenths % 10) \o " MB"

ImageOf(tag) ==
    [tag |-> tag.name,
     pushedAt |-> IF tag.last_updated = None \/ tag.last_updated = ""
                  THEN "N/A" ELSE Take(tag.last_updated, 10),
     size |-> IF tag.full_size = 0 THEN "N/A" ELSE SizeMB(tag.full_size)]

get_docker_images_list(outcome, data) ==
    /\ last' = [op |-> "docker_list", outcome |-> outcome, http |-> 200,
                resp |-> IF outcome = "ok"
                         THEN [images |->
                                  [i \in 1..Len(Take(data.results, 10))
                                      |-> ImageOf(data.results[i])],
                               repository |-> Repository,
                               total |-> data.count]
                         ELSE [images |-> <<>>,
                               repository |-> Repository,
                               total |-> 0]]
    /\ UNCHANGED state

get_jenkins_job(job_name, outcome, body) ==
    /\ last' = IF outcome = "ok"
               THEN [op |-> "jenkins_job", req |-> job_name,
                     outcome |-> outcome, http |-> 200, resp |-> body]
               ELSE [op |-> "jenkins_job", req |-> job_name,
                     outcome |-> outcome, http |-> 404,
                     resp |-> [detail |->
                                  "Job not found or Jenkins unavailable"]]
    /\ UNCHANGED state

(***************************************************************************)
(* The service: any request at any time.                                   *)
(***************************************************************************)
Next ==
    \/ StatusEvent
    \/ StageEvent
    \/ LifecycleEvent
    \/ Rollback
    \/ TriggerStart
    \/ TriggerEnd
    \/ CurrentRead
    \/ Tick

Spec == Init /\ [][Next]_vars

(***************************************************************************)
(* A long run of status events, enough to fill the build ledger and the    *)
(* log ledger past 100 entries.  Every event carries the defaults, so the  *)
(* build number of a record is the value of total when it was appended.    *)
(***************************************************************************)
DeepStatusInput ==
    [status |-> "success", pipeline_name |-> "AutoDeployX",
     build_number |-> 0, stage |-> None, message |-> <<>>,
     branch |-> "main"]

DeepStatus ==
    /\ status_events < MaxDeep
    /\ \E d \in Durations : update_jenkins_status(DeepStatusInput, Now, d)

\* limits of the log read of the long run: the default and one above the
\* capacity
DeepLimits == {20, 200}

DeepRecentLogs == \E limit \in DeepLimits : get_recent_logs(limit)

NextLedger ==
    \/ DeepStatus
    \/ DeepRecentLogs
    \/ Tick

SpecLedger == Init /\ [][NextLedger]_vars

(***************************************************************************)
(* A long run of successful deploy events and rollbacks, enough to fill    *)
(* the rollout history past 10 entries.                                    *)
(***************************************************************************)
DeepDeployInput ==
    [event_type |-> "deploy", status |-> "success",
     details |-> Dict(<< <<"version", "v2">> >>)]

DeepDeploy ==
    /\ Len(deployment_logs) < MaxRollouts
    /\ record_deployment_event(DeepDeployInput, Now)

DeepRollback ==
    /\ Len(deployment_logs) < MaxRollouts
    /\ rollback_deployment("unknown", Now)

NextRollout ==
    \/ DeepDeploy
    \/ DeepRollback
    \/ Tick

SpecRollout == Init /\ [][NextRollout]_vars

(***************************************************************************)
(* Status events and the two metric reads on their own, deep enough for    *)
(* the counters to reach three successes and one failure.                  *)
(***************************************************************************)
\* status events of the metric run
MaxMetricEvents == 4

MetricStatusInputs ==
    { su \in StatusInputs : su.status \in {"success", "failure", "running"} }

MetricStatus ==
    /\ status_events < MaxMetricEvents
    /\ \E su \in MetricStatusInputs, d \in Durations :
          update_jenkins_status(su, Now, d)

SuccessRateRead == get_success_rate

HistoryStatsRead == get_history_stats

NextMetrics ==
    \/ MetricStatus
    \/ SuccessRateRead
    \/ HistoryStatsRead
    \/ Tick

SpecMetrics == Init /\ [][NextMetrics]_vars

(***************************************************************************)
(* The whole API: every request that changes the tracked state and every   *)
(* read, with more kinds of input than the ingestion core above and fewer  *)
(* requests in a run.                                                      *)
(***************************************************************************)
\* requests that append a log line, in the run over the whole API
MaxApiLogs == 1

\* the status values of the model plus the spelling of the stage events
ApiStatusInputs ==
    StatusInputs
    \cup
    { [status |-> "failed", pipeline_name |-> "AutoDeployX",
       build_number |-> 0, stage |-> None, message |-> <<>>,
       branch |-> "main"] }

\* the stage events of the model plus the spelling of the status events
ApiStageInputs ==
    StageInputs
    \cup
    { [stage_name |-> "Deploy", status |-> "failure", timestamp |-> None] }

\* limits of the list reads: below the length, the default of the logs,
\* and a negative one
Limits == {-1, 1, 20}

PodNumbers == {1000, 9999}

PodInputs ==
    { <<>>,
      << [name |-> "autodeployx-app-7d9", status |-> "Pending",
          restarts |-> 2] >> }

JobLists ==
    { <<>>,
      << [name |-> "api", color |-> "blue", url |-> "http://jenkins/api"] >> }

RegistryData ==
    { [count |-> 2,
       results |-> << [name |-> "latest",
                       last_updated |-> "2026-01-02T10:00:05.000250Z",
                       full_size |-> 1572864],
                      [name |-> "v2", last_updated |-> None,
                       full_size |-> 0] >>] }

JobNames == {"api"}

JobBodies == { [name |-> "api", color |-> "blue"] }

ApiRoom == Len(deployment_logs) + Len(inflight) < MaxApiLogs

ApiStatus ==
    /\ ApiRoom
    /\ \E su \in ApiStatusInputs, d \in Durations :
          update_jenkins_status(su, Now, d)

ApiStage ==
    /\ ApiRoom
    /\ \E st \in ApiStageInputs : update_stage(st, Now)

ApiLifecycle ==
    /\ ApiRoom
    /\ \E ev \in EventInputs : record_deployment_event(ev, Now)

ApiRollback ==
    /\ ApiRoom
    /\ \E id \in DeploymentIds : rollback_deployment(id, Now)

ApiTriggerStart ==
    /\ ApiRoom
    /\ Len(inflight) < MaxInflight
    /\ \E request \in TriggerInputs : TriggerBegin(request, Now)

ApiPods == \E pods \in PodInputs : update_pods(pods)

DeploymentsRead == get_deployments

PipelinesRead ==
    \E outcome \in GetOutcomes, jobs \in JobLists :
       get_pipelines(outcome, jobs)

DockerImagesRead ==
    \E outcome \in GetOutcomes, data \in RegistryData :
       get_docker_images(outcome, data)

DockerListRead ==
    \E outcome \in GetOutcomes, data \in RegistryData :
       get_docker_images_list(outcome, data)

RecentLogsRead == \E limit \in Limits : get_recent_logs(limit)

RecentPipelinesRead == \E limit \in Limits : get_recent_pipelines(limit)

PipelineHistoryRead == \E limit \in Limits : get_pipeline_history(limit)

KubernetesRead ==
    \E number \in PodNumbers : get_kubernetes_deployment(number)

JenkinsJobRead ==
    \E job_name \in JobNames, outcome \in GetOutcomes, body \in JobBodies :
       get_jenkins_job(job_name, outcome, body)

NextApi ==
    \/ ApiStatus
    \/ ApiStage
    \/ ApiLifecycle
    \/ ApiRollback
    \/ ApiTriggerStart
    \/ TriggerEnd
    \/ ApiPods
    \/ CurrentRead
    \/ DeploymentsRead
    \/ PipelinesRead
    \/ DockerImagesRead
    \/ DockerListRead
    \/ SuccessRateRead
    \/ HistoryStatsRead
    \/ RecentLogsRead
    \/ RecentPipelinesRead
    \/ PipelineHistoryRead
    \/ KubernetesRead
    \/ JenkinsJobRead
    \/ Tick

SpecApi == Init /\ [][NextApi]_vars

(***************************************************************************)
(* A long run of status events with one request of another kind anywhere   *)
(* in it, before or after the build ledger is full, and reads of the       *)
(* pipeline history.                                                       *)
(***************************************************************************)
\* no request of another kind was handled yet: every log line so far is the
\* line of a status event and no trigger waits for the build server
OnlyStatusSoFar ==
    /\ Len(deployment_logs) = status_events
    /\ inflight = <<>>

BuildsStage ==
    /\ OnlyStatusSoFar
    /\ \E st \in StageInputs : update_stage(st, Now)

BuildsLifecycle ==
    /\ OnlyStatusSoFar
    /\ \E ev \in EventInputs : record_deployment_event(ev, Now)

BuildsRollback ==
    /\ OnlyStatusSoFar
    /\ \E id \in DeploymentIds : rollback_deployment(id, Now)

BuildsTriggerStart ==
    /\ OnlyStatusSoFar
    /\ \E request \in TriggerInputs : TriggerBegin(request, Now)

\* the default limit of GET /pipelines/history
HistoryLimits == {50}

BuildsHistoryRead == \E limit \in HistoryLimits : get_pipeline_history(limit)

NextBuilds ==
    \/ DeepStatus
    \/ BuildsStage
    \/ BuildsLifecycle
    \/ BuildsRollback
    \/ BuildsTriggerStart
    \/ TriggerEnd
    \/ BuildsHistoryRead

SpecBuilds == Init /\ [][NextBuilds]_vars

(***************************************************************************)
(* The handlers statement by statement on the event loop.  Every handler   *)
(* is an `async def`, served by the one event loop of uvicorn.run: the     *)
(* loop runs a handler until it awaits or returns, and only then runs      *)
(* another.  Here inflight holds every request that arrived and has not    *)
(* returned: its position in its handler, whether it holds the loop (on)   *)
(* and whether it waits for the answer of an outbound call (wait).         *)
(***************************************************************************)
\* the statements of a handler in the order it executes them:
\*   update_jenkins_status  count  (the counters), run (the current run),
\*                          insert and slice (the build ledger), log
\*   trigger_pipeline       reset, active, post (the outbound call), finish
\*   get_pipeline_history   read
Statements(kind) ==
    CASE kind = "status" -> <<"count", "run", "insert", "slice", "log">>
      [] kind = "trigger" -> <<"reset", "active", "post", "finish">>
      [] kind = "history" -> <<"read">>

\* variant: the handler also awaits between its reset and its increment
Awaits_AfterReset == {"reset", "post"}

\* the statements at which a handler awaits: client.post in trigger_pipeline
Awaits == {"post"}

StatementOf(t) == Statements(t.kind)[t.pc]

\* the handlers' shared state
shared == <<pipeline_status, deployment_logs, current_pipeline,
            kubernetes_state>>

\* the requests that arrive
StepRequests ==
    { [kind |-> "status", request |-> su] : su \in StatusInputs }
    \cup { [kind |-> "trigger", request |-> r] : r \in TriggerInputs }
    \cup { [kind |-> "history", request |-> [limit |-> l]] :
              l \in HistoryLimits }

\* the least number no request in progress carries
FreeId ==
    CHOOSE n \in 1..(Len(inflight) + 1) :
       /\ \A i \in 1..Len(inflight) : inflight[i].id # n
       /\ \A m \in 1..(n - 1) : \E i \in 1..Len(inflight) : inflight[i].id = m

\* a request arrives and is queued for the loop
StepsArrive ==
    /\ Len(deployment_logs) + Len(inflight) < MaxLogs
    /\ Len(inflight) < MaxInflight
    /\ \E r \in StepRequests :
          /\ inflight' = Append(inflight,
                [id |-> FreeId, kind |-> r.kind, request |-> r.request,
                 pc |-> 1, on |-> FALSE, wait |-> FALSE,
                 outcome |-> None, assigned |-> 0])
          /\ last' = [op |-> "arrive", id |-> FreeId]
    /\ UNCHANGED <<shared, clock, status_events>>

\* the answer of an outbound call arrives: the request can be resumed
StepsIoDone ==
    \E i \in 1..Len(inflight), outcome \in Outcomes :
       /\ inflight[i].wait
       /\ inflight' = [inflight EXCEPT ![i].wait = FALSE,
                                        ![i].outcome = outcome]
       /\ last' = [op |-> "io", id |-> inflight[i].id]
       /\ UNCHANGED <<shared, clock, status_events>>

\* the loop runs the request that holds it, or any request that is ready
\* when none holds it
Runnable(i) ==
    /\ ~inflight[i].wait
    /\ \/ inflight[i].on
       \/ \A k \in 1..Len(inflight) : ~inflight[k].on

\* the effect of one statement on the shared state
Execute(t, now, duration) ==
    LET su == t.request
        stmt == StatementOf(t)
    IN  /\ pipeline_status' =
              CASE stmt = "count" ->
                      ApplyStatusCounters(pipeline_status, su.status)
                [] stmt = "insert" ->
                      [pipeline_status EXCEPT !.builds =
                          Insert0(@, BuildEntry(su, pipeline_status.total,
                                                now, duration))]
                [] stmt = "slice" ->
                      [pipeline_status EXCEPT !.builds = Take(@, 100)]
                [] stmt = "active" ->
                      [pipeline_status EXCEPT !.active = @ + 1]
                [] OTHER -> pipeline_status
        /\ current_pipeline' =
              CASE stmt = "run" ->
                      [current_pipeline EXCEPT
                          !.pipelineName = su.pipeline_name,
                          !.buildNumber =
                              OrElseInt(su.build_number,
                                        pipeline_status.total),
                          !.status = su.status,
                          !.currentStage = OrElse(su.stage, "Processing..."),
                          !.branch = OrElse(su.branch, "main"),
                          !.startTime = NextStartTime(@, su.status, now)]
                [] stmt = "reset" ->
                      FreshRun(su, pipeline_status.total, now)
                [] OTHER -> current_pipeline
        /\ deployment_logs' =
              CASE stmt = "log" ->
                      AppendStatusLog(deployment_logs,
                                      StatusLogEntry(su, now))
                [] stmt = "finish" ->
                      AppendLog(deployment_logs,
                                TriggerLogEntry(su, t.outcome, now))
                [] OTHER -> deployment_logs
        /\ status_events' =
              IF stmt = "count" THEN status_events + 1 ELSE status_events
        /\ UNCHANGED <<kubernetes_state, clock>>

\* the request after its statement: at the next one, holding the loop
\* unless the statement awaits
Advance(t) ==
    [t EXCEPT !.pc = @ + 1,
              !.on = StatementOf(t) \notin Awaits,
              !.wait = StatementOf(t) \in Awaits,
              !.assigned = IF StatementOf(t) = "reset"
                           THEN pipeline_status.total + 1 ELSE @]

\* the loop runs one statement of a request; after the last one the
\* handler returns
StepsRun ==
    \E i \in 1..Len(inflight), d \in Durations :
       /\ Runnable(i)
       /\ Execute(inflight[i], Now, d)
       /\ inflight' =
             IF inflight[i].pc = Len(Statements(inflight[i].kind))
             THEN RemoveAt(inflight, i)
             ELSE [inflight EXCEPT ![i] = Advance(inflight[i])]
       /\ last' = [op |-> "step", id |-> inflight[i].id,
                   kind |-> inflight[i].kind,
                   stmt |-> StatementOf(inflight[i]),
                   waiting |-> { inflight[k].id :
                                   k \in { x \in 1..Len(inflight) :
                                             inflight[x].wait } }]

NextSteps ==
    \/ StepsArrive
    \/ StepsIoDone
    \/ StepsRun

SpecSteps == Init /\ [][NextSteps]_vars

(***************************************************************************)
(* Properties.                                                             *)
(***************************************************************************)
builds == pipeline_status.builds
stages == current_pipeline.stages

\* C1: with N status events received, total = N, success + failed <= total
\* and active >= 0, whatever other requests were served in between.
C1_Counters ==
    /\ pipeline_status.total = status_events
    /\ pipeline_status.success + pipeline_status.failed
          <= pipeline_status.total
    /\ pipeline_status.active >= 0

\* a failure event arrived when nothing was active, after a success
C1_Witness ==
    /\ status_events = 3
    /\ pipeline_status.failed = 1
    /\ pipeline_status.success = 1
    /\ pipeline_status.active = 0
    /\ builds[1].status = "failure"

\* C2: the build ledger never holds more than 100 records, and once more
\* than 100 status events were received it holds the records of the last
\* 100 of them, the latest first.
C2_BuildLedger ==
    /\ Len(builds) <= 100
    /\ status_events > 100 =>
          /\ Len(builds) = 100
          /\ \A i \in 1..100 :
                builds[i].build_number = status_events - i + 1

C2_Witness ==
    /\ status_events > 100
    /\ Len(builds) = 100
    /\ builds[1].build_number = status_events
    /\ builds[100].build_number = status_events - 99

\* C3: the log ledger never holds more than 100 log lines.
C3_LogCapacity == Len(deployment_logs) <= 100

\* C4: the rollout history never holds more than 10 rollout records.
C4_RolloutCapacity == Len(kubernetes_state.rolloutHistory) <= 10

\* C5 as stated: the status of the current run moves only from pending to
\* running and from running to success or failure, except that a trigger
\* re-enters at running.
C5_Allowed(old, new) ==
    \/ new = old
    \/ old = "pending" /\ new = "running"
    \/ old = "running" /\ new \in {"success", "failure"}

C5_Lifecycle ==
    [][IF last'.op = "trigger_begin"
       THEN current_pipeline'.status = "running"
       ELSE C5_Allowed(current_pipeline.status, current_pipeline'.status)]_vars

\* C5 amended: a status event sets the status of the current run to the
\* status it carries, whatever the status was; a trigger sets it to running;
\* no other request changes it.
C5_StatusOverwrite ==
    [][CASE last'.op = "status" ->
               current_pipeline'.status = last'.req.status
         [] last'.op = "trigger_begin" ->
               current_pipeline'.status = "running"
         [] OTHER ->
               current_pipeline'.status = current_pipeline.status]_vars

\* a pending event right after a success event, no trigger in between
C5_Witness ==
    /\ last.op = "status"
    /\ Len(builds) >= 2
    /\ builds[1].status = "pending"
    /\ builds[2].status = "success"
    /\ pipeline_status.active = 0
    /\ current_pipeline.status = "pending"

Max0(n) == IF n > 0 THEN n ELSE 0

C6_Step ==
    last'.op = "status" =>
       LET s == last'.req.status
           old == pipeline_status
           new == pipeline_status'
       IN  /\ new.total = old.total + 1
           /\ s = "success" =>
                 /\ new.success = old.success + 1
                 /\ new.failed = old.failed
                 /\ new.active = Max0(old.active - 1)
           /\ s = "failure" =>
                 /\ new.failed = old.failed + 1
                 /\ new.success = old.success
                 /\ new.active = Max0(old.active - 1)
           /\ s = "running" =>
                 /\ new.active = old.active + 1
                 /\ new.success = old.success
                 /\ new.failed = old.failed
           /\ s \notin {"success", "failure", "running"} =>
                 /\ new.active = old.active
                 /\ new.success = old.success
                 /\ new.failed = old.failed

\* the three status events running, running, failure and no trigger
C6_ScenarioRan ==
    /\ status_events = 3
    /\ Len(deployment_logs) = 3
    /\ inflight = <<>>
    /\ builds[3].status = "running"
    /\ builds[2].status = "running"
    /\ builds[1].status = "failure"

\* C6: a status event adds one to total; success adds one to success and
\* failure one to failed, both taking one from active unless it is zero;
\* running adds one to active; any other status changes nothing else; the
\* events running, running, failure from the start give total 3, active 1,
\* failed 1, success 0.
C6_StatusCounters ==
    /\ [][C6_Step]_vars
    /\ [](C6_ScenarioRan =>
             /\ pipeline_status.total = 3
             /\ pipeline_status.active = 1
             /\ pipeline_status.failed = 1
             /\ pipeline_status.success = 0)

C6_Witness ==
    /\ C6_ScenarioRan
    /\ last.op = "status"
    /\ pipeline_status.active = 1

\* C7: right after the reset of a trigger the stages are Checkout, Test,
\* Build, Push, Deploy, all pending, and the run is running.
C7_TriggerResets ==
    last.op = "trigger_begin" =>
       /\ Len(stages) = 5
       /\ [i \in 1..5 |-> stages[i].name]
             = <<"Checkout", "Test", "Build", "Push", "Deploy">>
       /\ \A i \in 1..5 : stages[i].status = "pending"
       /\ current_pipeline.status = "running"

\* the first trigger ever, after stage events added Lint and changed Build
C7_Witness ==
    /\ last.op = "trigger_begin"
    /\ Len(inflight) = 1
    /\ Len(deployment_logs) = 2
    /\ \A i \in 1..2 : deployment_logs[i].message[1] = "Stage '"
    /\ \E i \in 1..2 : deployment_logs[i].message[2] = "Lint"
    /\ \E i \in 1..2 : deployment_logs[i].message[2] = "Build"

C8_Step ==
    /\ last'.op = "trigger_begin" =>
          /\ pipeline_status'.active = pipeline_status.active + 1
          /\ current_pipeline'.buildNumber = pipeline_status.total + 1
          /\ pipeline_status'.total = pipeline_status.total
          /\ pipeline_status'.success = pipeline_status.success
          /\ pipeline_status'.failed = pipeline_status.failed
          /\ pipeline_status'.builds = pipeline_status.builds
          /\ deployment_logs' = deployment_logs
    /\ last'.op = "trigger" =>
          /\ pipeline_status' = pipeline_status
          /\ current_pipeline' = current_pipeline
          /\ Len(deployment_logs') = Len(deployment_logs) + 1
          /\ SubSeq(deployment_logs', 2, Len(deployment_logs'))
                = deployment_logs
          /\ last'.resp.status =
                IF last'.outcome = "accepted" THEN "triggered" ELSE "queued"

\* C8: the reset of a trigger adds one to active, sets the build number of
\* the current run to total + 1 and leaves total, success, failed and the
\* build ledger alone; the completion of the trigger, whatever the outcome
\* of the build-server call, leaves the counters and the current run alone
\* and only appends a log line and chooses the response.
C8_TriggerFrame == [][C8_Step]_vars

\* a trigger completed by an exception of the call, after a status event
C8_Witness ==
    /\ last.op = "trigger"
    /\ last.outcome = "raised"
    /\ last.resp.status = "queued"
    /\ pipeline_status.total = 1
    /\ current_pipeline.buildNumber = 2
    /\ pipeline_status.active >= 1

C9_Step ==
    last'.op = "stage" =>
       LET st == last'.req
           old == current_pipeline.stages
           new == current_pipeline'.stages
           present == \E i \in 1..Len(old) : old[i].name = st.stage_name
       IN  /\ ~present =>
                 /\ Len(new) = Len(old) + 1
                 /\ SubSeq(new, 1, Len(old)) = old
                 /\ new[Len(new)].name = st.stage_name
                 /\ new[Len(new)].status = st.status
           /\ present =>
                 /\ Len(new) = Len(old)
                 /\ \A i \in 1..Len(old) :
                       /\ new[i].name = old[i].name
                       /\ old[i].name # st.stage_name => new[i] = old[i]
                       /\ old[i].name = st.stage_name =>
                             new[i].status = st.status
           /\ current_pipeline'.currentStage = st.stage_name
           /\ current_pipeline'.status = current_pipeline.status
           /\ current_pipeline'.branch = current_pipeline.branch
           /\ current_pipeline'.buildNumber = current_pipeline.buildNumber
           /\ pipeline_status' = pipeline_status

\* C9: a stage event with a new name appends one entry at the end; with a
\* known name it changes that entry's status and time in place; either way
\* current_stage becomes the name and the run's status, branch, build
\* number, the counters and the build ledger stay as they were.
C9_StageFrame == [][C9_Step]_vars

\* Lint was appended to the seeded template and Build changed in place
C9_Witness ==
    /\ last.op = "stage"
    /\ Len(stages) = 6
    /\ stages[6].name = "Lint"
    /\ stages[3].name = "Build"
    /\ stages[3].status # "pending"
    /\ current_pipeline.currentStage = last.req.stage_name

\* C10: the names of the stages of the current run are pairwise distinct.
C10_UniqueNames ==
    \A i, j \in 1..Len(stages) :
       stages[i].name = stages[j].name => i = j

\* a stage event named a stage of the template seeded by the read
C10_Witness ==
    /\ last.op = "stage"
    /\ last.req.stage_name = "Build"
    /\ Len(stages) = 5
    /\ Len(deployment_logs) = 1
    /\ inflight = <<>>
    /\ stages[3].status = "running"

C11_Step ==
    last'.op = "status" =>
       IF last'.req.status = "running" /\ current_pipeline.startTime = None
       THEN current_pipeline'.startTime = Instants[clock].hms
       ELSE current_pipeline'.startTime = current_pipeline.startTime

\* C11: a status event sets the start time of the current run only when
\* its status is running and no start time is set; every other status
\* event leaves the start time as it was.
C11_StartTimeOnce == [][C11_Step]_vars

\* two running events at different instants and no trigger: the start time
\* is still the time of the first
C11_Witness ==
    /\ last.op = "status"
    /\ status_events = 2
    /\ Len(deployment_logs) = 2
    /\ inflight = <<>>
    /\ builds[1].status = "running"
    /\ builds[2].status = "running"
    /\ builds[1].timestamp # builds[2].timestamp
    /\ current_pipeline.startTime = Instants[1].hms
    /\ StrfHMS(Now) # Instants[1].hms

C12_Derived(entry, l) ==
    CASE l.op = "status" ->
            entry.message =
               IF l.req.message # <<>> THEN l.req.message
               ELSE <<"Pipeline ", l.req.pipeline_name, " - ", l.req.status>>
      [] l.op = "stage" ->
            entry.message =
               <<"Stage '", l.req.stage_name, "' - ", l.req.status>>
      [] l.op = "trigger" ->
            \E i \in 1..Len(entry.message) :
               entry.message[i] = l.req.pipeline_name

C12_Step ==
    /\ last'.op \in {"status", "stage", "trigger"} =>
          /\ Len(deployment_logs') = Len(deployment_logs) + 1
          /\ Tail(deployment_logs') = deployment_logs
          /\ C12_Derived(deployment_logs'[1], last')
    /\ last'.op = "trigger_begin" => deployment_logs' = deployment_logs

\* C12: a status event, a stage event and a trigger request each put
\* exactly one log line, derived from the request, at the front of the log
\* ledger; the lines already there keep their order behind it.
C12_OneLogLine == [][C12_Step]_vars

\* a trigger completed after a stage event and one other request
C12_Witness ==
    /\ last.op = "trigger"
    /\ Len(deployment_logs) = 3
    /\ deployment_logs[2].message[1] = "Stage '"
    /\ \E i \in 1..Len(deployment_logs[1].message) :
          deployment_logs[1].message[i] = "api"

rolloutHistory == kubernetes_state.rolloutHistory

\* C16: a rollout record appended by a deploy event or a rollback has a
\* revision greater than the revision of every record already in the
\* rollout ledger.
C16_RevisionsIncrease ==
    [][rolloutHistory' # rolloutHistory =>
          \A i \in 1..Len(rolloutHistory) :
             rolloutHistory'[1].revision > rolloutHistory[i].revision]_vars

C17_Step ==
    last'.op = "event" =>
       LET ev == last'.req
           items == ev.details.items
           drives == /\ ev.event_type = "deploy"
                     /\ ev.status = "success"
                     /\ ~ev.details.isNone
                     /\ \E i \in 1..Len(items) : items[i][1] = "version"
           old == kubernetes_state.rolloutHistory
           new == kubernetes_state'.rolloutHistory
       IN  /\ drives =>
                 /\ \E i \in 1..Len(items) :
                       /\ items[i][1] = "version"
                       /\ new[1].image = items[i][2]
                       /\ kubernetes_state'.currentVersion = items[i][2]
                 /\ new[1].status = "success"
                 /\ Len(new) = (IF Len(old) < 10 THEN Len(old) + 1 ELSE 10)
                 /\ Tail(new) = SubSeq(old, 1, Len(new) - 1)
           /\ ~drives => kubernetes_state' = kubernetes_state
           /\ Len(deployment_logs') = Len(deployment_logs) + 1
           /\ Tail(deployment_logs') = deployment_logs
           /\ pipeline_status' = pipeline_status
           /\ current_pipeline' = current_pipeline

\* C17: a lifecycle event appends a rollout record with status success and
\* the version as image, and sets current_version to the version, exactly
\* when its type is deploy, its status success and its details carry a
\* version; any other lifecycle event only appends its log line; no
\* lifecycle event changes the counters, the build ledger or the current run.
C17_LifecycleFrame == [][C17_Step]_vars

\* a successful deploy of v2 recorded on top of an earlier rollout record
C17_Witness ==
    /\ last.op = "event"
    /\ last.req.status = "success"
    /\ kubernetes_state.currentVersion = "v2"
    /\ Len(rolloutHistory) = 2
    /\ rolloutHistory[1].image = "v2"
    /\ rolloutHistory[1].status = "success"

C18_Reported(time) ==
    last.op = "history_stats" =>
       LET k == IF \E i \in 1..Len(builds) : builds[i].status = "success"
                THEN CHOOSE i \in 1..Len(builds) :
                        /\ builds[i].status = "success"
                        /\ \A j \in 1..(i - 1) : builds[j].status # "success"
                ELSE 0
       IN  /\ k = 0 =>
                 /\ last.resp.lastSuccessTime = "N/A"
                 /\ last.resp.lastDeployedVersion = "N/A"
           /\ k # 0 =>
                 /\ last.resp.lastSuccessTime = time[k]
                 /\ last.resp.lastDeployedVersion =
                       "v" \o ToString(builds[k].build_number)
           /\ last.resp.totalPipelines = pipeline_status.total
           /\ last.resp.successCount = pipeline_status.success
           /\ last.resp.failureCount = pipeline_status.failed

\* C18 as stated: history stats report the timestamp and the label
\* "v" + build_number of the first success record, N/A for both without
\* one, and the three counters.
C18_HistoryStats ==
    C18_Reported([i \in 1..Len(builds) |-> builds[i].timestamp])

\* C18 amended: the timestamp is reported cut to its first 19 characters
\* (date and time, without the fraction of a second).
C18_HistoryStatsTruncated ==
    C18_Reported([i \in 1..Len(builds) |->
                     SubSeq(builds[i].timestamp, 1, 19)])

\* the success record is second, carries build number 7 and a timestamp
\* with microseconds
C18_Witness ==
    /\ last.op = "history_stats"
    /\ Len(builds) >= 2
    /\ builds[1].status = "failure"
    /\ builds[2].status = "success"
    /\ builds[2].build_number = 7
    /\ Len(builds[2].timestamp) > 19
    /\ last.resp.lastDeployedVersion = "v7"
    /\ last.resp.lastSuccessTime = "2026-01-02T10:00:05"

\* C19: the success rate is success / (success + failed) * 100 rounded to
\* the nearest tenth (750 tenths for 3 and 1, 333 for 1 and 2) and 100.0
\* when success + failed is zero, whatever total is.
C19_SuccessRate ==
    last.op = "success_rate" =>
       LET s == pipeline_status.success
           f == pipeline_status.failed
           rate == last.resp.rate
           off == rate * (s + f) - 1000 * s
       IN  /\ s + f = 0 => rate = 1000
           /\ s + f > 0 => 2 * off <= s + f /\ -2 * off <= s + f
           /\ s = 3 /\ f = 1 => rate = 750
           /\ s = 1 /\ f = 2 => rate = 333
           /\ last.resp.total = s + f

\* one success and two failures among four status events
C19_Witness ==
    /\ last.op = "success_rate"
    /\ pipeline_status.success = 1
    /\ pipeline_status.failed = 2
    /\ pipeline_status.total = 4
    /\ last.resp.rate = 333

\* the requests of C13 and the status each results in
C13_Logged == last.op \in {"status", "stage", "trigger"}
C13_Status == IF last.op = "trigger" THEN "running" ELSE last.req.status

\* C13 as stated: the level of the appended line is success for the status
\* success, error for failure and for failed, info for any other status,
\* for status events, stage events and triggers alike.
C13_LevelFromStatus ==
    C13_Logged =>
       deployment_logs[1].level =
          (IF C13_Status = "success" THEN "success"
           ELSE IF C13_Status \in {"failure", "failed"} THEN "error"
           ELSE "info")

\* C13 amended: each kind of request has its own rule.
C13_LevelPerRequest ==
    C13_Logged =>
       deployment_logs[1].level =
          (CASE last.op = "status" ->
                  (IF last.req.status = "success" THEN "success"
                   ELSE IF last.req.status = "failure" THEN "error"
                   ELSE "info")
             [] last.op = "stage" ->
                  (IF last.req.status = "success" THEN "success"
                   ELSE IF last.req.status = "failed" THEN "error"
                   ELSE "info")
             [] last.op = "trigger" ->
                  (IF last.outcome = "accepted" THEN "info" ELSE "warning"))

\* a stage event spelled like a status event: its line is informational
C13_Witness ==
    /\ last.op = "stage"
    /\ last.req.status = "failure"
    /\ deployment_logs[1].level = "info"
    /\ deployment_logs[1].message[2] = last.req.stage_name

ReadOps == {"deployments", "pipelines", "docker_images", "docker_list",
            "success_rate", "recent_logs", "recent_pipelines",
            "pipeline_history", "history_stats", "kubernetes", "current",
            "jenkins_job"}

C14_SeedsStages ==
    /\ current_pipeline.stages = <<>>
    /\ Len(current_pipeline'.stages) = 5
    /\ \A i \in 1..5 :
          /\ current_pipeline'.stages[i].name = StageNames[i]
          /\ current_pipeline'.stages[i].status = "pending"
    /\ current_pipeline' =
          [current_pipeline EXCEPT !.stages = current_pipeline'.stages]
    /\ UNCHANGED <<pipeline_status, deployment_logs, kubernetes_state>>

C14_SeedsPod ==
    /\ kubernetes_state.pods = <<>>
    /\ Len(kubernetes_state'.pods) = 1
    /\ kubernetes_state'.pods[1].status = "running"
    /\ kubernetes_state'.pods[1].restarts = 0
    /\ kubernetes_state' =
          [kubernetes_state EXCEPT !.pods = kubernetes_state'.pods]
    /\ UNCHANGED <<pipeline_status, deployment_logs, current_pipeline>>

C14_Same ==
    UNCHANGED <<pipeline_status, deployment_logs, current_pipeline,
                kubernetes_state>>

\* C14 as stated: every read leaves the shared state unchanged, except that
\* the current-run read seeds the template when there are no stages.
C14_ReadsPure ==
    [][last'.op \in ReadOps =>
          IF last'.op = "current" /\ current_pipeline.stages = <<>>
          THEN C14_SeedsStages ELSE C14_Same]_vars

\* C14 amended: the kubernetes read is a second exception, it stores one
\* simulated running pod when there are no pods.
C14_ReadsSeedOnly ==
    [][last'.op \in ReadOps =>
          IF last'.op = "current" /\ current_pipeline.stages = <<>>
          THEN C14_SeedsStages
          ELSE IF last'.op = "kubernetes" /\ kubernetes_state.pods = <<>>
          THEN C14_SeedsPod
          ELSE C14_Same]_vars

\* the kubernetes read made up a pod, after the current-run read had seeded
\* the template (no trigger ran: nothing is logged or in flight)
C14_Witness ==
    /\ last.op = "kubernetes"
    /\ kubernetes_state.pods = last.resp.pods
    /\ kubernetes_state.pods = <<SimulatedPod(9999)>>
    /\ Len(stages) = 5
    /\ deployment_logs = <<>>
    /\ inflight = <<>>

\* C15: the recent-logs read returns the first min(limit, length) lines of
\* the log ledger, newest first, and never more than 100 lines.
C15_RecentLogs ==
    last.op = "recent_logs" =>
       LET n == IF last.req < Len(deployment_logs)
                THEN last.req ELSE Len(deployment_logs)
       IN  /\ last.resp.logs = SubSeq(deployment_logs, 1, n)
           /\ Len(last.resp.logs) <= 100

C20_Responded == last.op \notin {"init", "tick", "trigger_begin"}

\* C20: whatever the build server and the registry do, the only request
\* that fails is the job-detail lookup, with not found; the pipeline totals
\* fall back to the tracked total and active with no jobs, the registry
\* reads to a zero count with the repository kept, the trigger to queued,
\* and a rollback is accepted for any deployment id.
C20_OnlyJobLookupFails ==
    C20_Responded =>
       /\ last.http # 200 =>
             /\ last.op = "jenkins_job"
             /\ last.outcome # "ok"
             /\ last.http = 404
       /\ last.op = "jenkins_job" /\ last.outcome # "ok" => last.http = 404
       /\ last.op = "pipelines" /\ last.outcome # "ok" =>
             last.resp = [total |-> pipeline_status.total,
                          active |-> pipeline_status.active,
                          jobs |-> <<>>]
       /\ last.op = "docker_images" /\ last.outcome # "ok" =>
             /\ last.resp.count = 0
             /\ last.resp.tags = <<>>
             /\ last.resp.repository = "sarika1731/autodeployx"
       /\ last.op = "docker_list" /\ last.outcome # "ok" =>
             /\ last.resp.total = 0
             /\ last.resp.images = <<>>
             /\ last.resp.repository = "sarika1731/autodeployx"
       /\ last.op = "trigger" /\ last.outcome # "accepted" =>
             last.resp.status = "queued"
       /\ last.op = "rollback" =>
             /\ last.resp.status = "rolling_back"
             /\ last.resp.deployment_id = last.req

\* the build server timed out on the pipeline totals after a running
\* status event had changed the tracked counters
C20_Witness ==
    /\ last.op = "pipelines"
    /\ last.outcome = "raised"
    /\ last.http = 200
    /\ last.resp.jobs = <<>>
    /\ last.resp.total = 1
    /\ last.resp.active >= 1

(***************************************************************************)
(* C22: a trigger and the build number it returns                          *)
(***************************************************************************)
\* C22: the build_number in the response of a trigger request is the build
\* number the reset of that request assigned to the current run (total + 1
\* at that moment), whatever was handled while the request waited for the
\* build server.
C22_ReturnsAssigned ==
    last.op = "trigger" => last.resp.build_number = last.assigned

(***************************************************************************)
(* C23: the build ledger and the count of status events                    *)
(***************************************************************************)
Min(a, b) == IF a < b THEN a ELSE b

\* a status event puts its record at the front and keeps the records that
\* were there, in their order, dropping the oldest one when there were 100;
\* any other request leaves the build ledger as it is
C23_Step ==
    /\ last'.op = "status" =>
          /\ Len(builds') = Min(Len(builds) + 1, 100)
          /\ builds'[1] = last'.resp.build
          /\ \A i \in 2..Len(builds') : builds'[i] = builds[i - 1]
    /\ last'.op # "status" => builds' = builds

\* C23: the build ledger holds min(total, 100) records in every state; each
\* status event adds exactly one, no other request adds, removes or alters
\* one, and a record stays as it was appended until it is dropped as the
\* oldest.
C23_BuildLedgerLength ==
    [][ /\ C23_Step
        /\ Len(builds') = Min(pipeline_status'.total, 100) ]_vars

\* more than 100 status events and a request of another kind were handled;
\* the ledger is full and its oldest record is the one appended 99 events
\* before the newest
C23_Witness ==
    /\ status_events > 100
    /\ Len(deployment_logs) > status_events
    /\ last.op = "status"
    /\ Len(builds) = 100
    /\ builds[1] = last.resp.build
    /\ builds[1].build_number = status_events
    /\ builds[100].build_number = status_events - 99

(***************************************************************************)
(* C21: mutations are atomic units                                         *)
(***************************************************************************)
\* the second parts of the units: the writes to the current run after the
\* counters, the slice after the insert, the increment after the reset
SecondParts == {"run", "slice", "active"}

\* a request that executed the first part of a unit and not yet the second
MidUnit(t) == StatementOf(t) \in SecondParts

\* between the two parts of a unit no statement of another request runs;
\* a read runs on whole units only; and the loop is never held by a request
\* that waits for the build server
C21_Step ==
    /\ \A i \in 1..Len(inflight) :
          MidUnit(inflight[i]) =>
             \/ last'.op = "step" /\ last'.id = inflight[i].id
             \/ last'.op \in {"arrive", "io"} /\ shared' = shared
    /\ last'.op = "step" /\ last'.stmt = "read" =>
          /\ Len(builds) = pipeline_status.total
          /\ current_pipeline.status = "running" =>
                pipeline_status.active > 0
    /\ (\E j \in 1..Len(inflight) : ~inflight[j].wait) => ENABLED StepsRun

\* C21: a ledger insert with its truncation, a status event's counter
\* update with its writes to the current run, and a trigger's reset with
\* its increment of active are each applied without any other request
\* reading or writing the shared state in between, and a request that
\* waits for the build server does not keep another request from running.
C21_AtomicUnits == [][C21_Step]_vars

\* a status event was handled from its first statement to its last while a
\* trigger waited for the build server
C21_Witness ==
    /\ last.op = "step"
    /\ last.kind = "status"
    /\ last.stmt = "log"
    /\ last.waiting # {}
    /\ \E i \in 1..Len(inflight) :
          /\ inflight[i].kind = "trigger"
          /\ inflight[i].wait
          /\ inflight[i].id \in last.waiting
          /\ inflight[i].id < last.id
====
